---- MODULE Spec2Model ----
(***************************************************************************)
(* Minesweeper rules engine (components.Board): deferred mine placement    *)
(* with first-click safety, recursive flood-fill reveal, flag toggling     *)
(* and win / loss detection; and the clock of the application loop         *)
(* (run.Game): start on the first left click, pause on a key press, resume *)
(* on a left click, stop when the board is won or lost.                    *)
(***************************************************************************)
EXTENDS Integers, Sequences, FiniteSets, TLC

\* ---- bounds of the model ------------------------------------------------
MaxCols  == 4
MaxRows  == 3
MaxCells == 12
MaxMines == 2
MaxFlags == 1
MaxCalls == 3
MaxTicks == 3

VARIABLES cols, rows, num_mines, cells, mines_placed, revealed_count,
          game_over, win,
          calls,      \* number of reveal / toggle_flag calls (of input events,
                      \* in the application loop) made so far
          safe,       \* <<safe_col, safe_row>> handed to place_mines, or << >>
          ticks,      \* pygame.time.get_ticks()
          started, start_ticks_ms, end_ticks_ms, paused, paused_start_ticks,
          pause_start_ticks   \* << >> until run_step creates the attribute

boardVars == <<cols, rows, num_mines, cells, mines_placed, revealed_count,
               game_over, win>>

gameVars == <<started, start_ticks_ms, end_ticks_ms, paused,
              paused_start_ticks, pause_start_ticks>>

vars == <<boardVars, calls, safe, ticks, gameVars>>

\* ---- CellState / Board construction --------------------------------------
CellState == [is_mine |-> FALSE, is_revealed |-> FALSE,
              is_flagged |-> FALSE, adjacent |-> 0]

Board(c, r, mines) ==
    [cols |-> c, rows |-> r, num_mines |-> mines,
     cells |-> [i \in 0 .. (c * r - 1) |-> CellState],
     mines_placed |-> FALSE, revealed_count |-> 0,
     game_over |-> FALSE, win |-> FALSE]

\* the Board object made of the current values of its fields
self ==
    [cols |-> cols, rows |-> rows, num_mines |-> num_mines, cells |-> cells,
     mines_placed |-> mines_placed, revealed_count |-> revealed_count,
     game_over |-> game_over, win |-> win]

\* ---- coordinate utilities ------------------------------------------------
index(b, col, row) == row * b.cols + col

is_inbounds(b, col, row) ==
    0 <= col /\ col < b.cols /\ 0 <= row /\ row < b.rows

deltas == << <<-1, -1>>, <<0, -1>>, <<1, -1>>,
             <<-1, 0>>,             <<1, 0>>,
             <<-1, 1>>,  <<0, 1>>,  <<1, 1>> >>

neighbors(b, col, row) ==
    SelectSeq([k \in 1 .. Len(deltas) |->
                  <<col + deltas[k][1], row + deltas[k][2]>>],
              LAMBDA n : is_inbounds(b, n[1], n[2]))

Range(s) == {s[k] : k \in 1 .. Len(s)}

\* f itself (f @@ f = f), as an explicit table: the model checker evaluates
\* a function constructor lazily, and a cell list rebuilt by every step of
\* the flood fill would otherwise be recomputed at each lookup
Table(f) == f @@ f

\* ---- mine placement ------------------------------------------------------
all_positions(b) == {<<c, r>> : c \in 0 .. (b.cols - 1), r \in 0 .. (b.rows - 1)}

\* only the clicked cell is kept free, its neighbours are not
forbidden_onlyCell(b, safe_col, safe_row) ==
    {<<safe_col, safe_row>>}

forbidden(b, safe_col, safe_row) ==
    {<<safe_col, safe_row>>} \cup Range(neighbors(b, safe_col, safe_row))

\* line 96, with the forbidden cells left in the pool
pool_everyCell(b, safe_col, safe_row) == all_positions(b)

pool(b, safe_col, safe_row) ==
    all_positions(b) \ forbidden(b, safe_col, safe_row)

Min(a, c) == IF a < c THEN a ELSE c

RECURSIVE KSubsets(_, _)
KSubsets(S, k) ==
    IF k = 0 THEN {{}}
    ELSE IF Cardinality(S) < k THEN {}
    ELSE LET x == CHOOSE y \in S : TRUE
         IN {T \cup {x} : T \in KSubsets(S \ {x}, k - 1)}
            \cup KSubsets(S \ {x}, k)

\* the slice taken one short: pool[:num_mines - 1]
mine_positions_offByOne(b, safe_col, safe_row) ==
    LET p == pool(b, safe_col, safe_row)
        n == IF b.num_mines = 0 THEN Cardinality(p) ELSE b.num_mines
    IN KSubsets(p, IF n = 0 THEN 0 ELSE Min(n, Cardinality(p)) - 1)

\* random.shuffle(pool) followed by pool[:num_mines]: any num_mines distinct
\* members of the pool, or the whole pool when it is shorter than num_mines
mine_positions(b, safe_col, safe_row) ==
    LET p == pool(b, safe_col, safe_row)
    IN KSubsets(p, Min(b.num_mines, Cardinality(p)))

\* the count over the four neighbours that share a row or a column
mine_count_orthogonal(cs, b, c, r) ==
    LET ns == neighbors(b, c, r)
    IN Cardinality({k \in 1 .. Len(ns) :
                       /\ ns[k][1] = c \/ ns[k][2] = r
                       /\ cs[index(b, ns[k][1], ns[k][2])].is_mine})

mine_count(cs, b, c, r) ==
    LET ns == neighbors(b, c, r)
    IN Cardinality({k \in 1 .. Len(ns) :
                       cs[index(b, ns[k][1], ns[k][2])].is_mine})

\* placement that forgets to record that it has run (line 121 missing)
place_mines_unrecorded(b, safe_col, safe_row, chosen) ==
    LET mined == Table([i \in DOMAIN b.cells |->
                    IF \E p \in chosen : index(b, p[1], p[2]) = i
                    THEN [b.cells[i] EXCEPT !.is_mine = TRUE]
                    ELSE b.cells[i]])
        counted == Table([i \in DOMAIN b.cells |->
                    IF ~mined[i].is_mine
                    THEN [mined[i] EXCEPT !.adjacent =
                            mine_count(mined, b, i % b.cols, i \div b.cols)]
                    ELSE mined[i]])
    IN [b EXCEPT !.cells = counted]

place_mines(b, safe_col, safe_row, chosen) ==
    LET mined == Table([i \in DOMAIN b.cells |->
                    IF \E p \in chosen : index(b, p[1], p[2]) = i
                    THEN [b.cells[i] EXCEPT !.is_mine = TRUE]
                    ELSE b.cells[i]])
        counted == Table([i \in DOMAIN b.cells |->
                    IF ~mined[i].is_mine
                    THEN [mined[i] EXCEPT !.adjacent =
                            mine_count(mined, b, i % b.cols, i \div b.cols)]
                    ELSE mined[i]])
    IN [b EXCEPT !.cells = counted, !.mines_placed = TRUE]

\* ---- reveal / flag / win -------------------------------------------------
\* "cell.state.is_revealed = cell.state.is_mine" for every cell: the mines are
\* shown and every other cell is hidden again
reveal_all_mines_only(b) ==
    [b EXCEPT !.cells = Table([i \in DOMAIN b.cells |->
        [b.cells[i] EXCEPT !.is_revealed = b.cells[i].is_mine]])]

reveal_all_mines(b) ==
    [b EXCEPT !.cells = Table([i \in DOMAIN b.cells |->
        IF b.cells[i].is_mine THEN [b.cells[i] EXCEPT !.is_revealed = TRUE]
        ELSE b.cells[i]])]

\* lines 180-187, with the count compared to the number of all cells
check_win_allCells(b) ==
    IF b.revealed_count = b.cols * b.rows /\ ~b.game_over
    THEN [b EXCEPT !.win = TRUE,
                   !.cells = Table([i \in DOMAIN b.cells |->
                       IF ~b.cells[i].is_revealed /\ ~b.cells[i].is_mine
                       THEN [b.cells[i] EXCEPT !.is_revealed = TRUE]
                       ELSE b.cells[i]])]
    ELSE b

\* lines 180-187: _check_win, with its sweep over the cells
check_win(b) ==
    IF b.revealed_count = b.cols * b.rows - b.num_mines /\ ~b.game_over
    THEN [b EXCEPT !.win = TRUE,
                   !.cells = Table([i \in DOMAIN b.cells |->
                       IF ~b.cells[i].is_revealed /\ ~b.cells[i].is_mine
                       THEN [b.cells[i] EXCEPT !.is_revealed = TRUE]
                       ELSE b.cells[i]])]
    ELSE b

\* the test of line 134 without its first half: only a flag stops the call
is_blocked_flagOnly(b, col, row) ==
    b.cells[index(b, col, row)].is_flagged

\* the test of line 134 without its second half: a flag does not stop the call
is_blocked_revealedOnly(b, col, row) ==
    b.cells[index(b, col, row)].is_revealed

\* the test of line 134: the cell is already open or carries a flag
is_blocked(b, col, row) ==
    \/ b.cells[index(b, col, row)].is_revealed
    \/ b.cells[index(b, col, row)].is_flagged

\* lines 137-138, without the count
mark_revealed_uncounted(b, i) ==
    [b EXCEPT !.cells[i].is_revealed = TRUE]

\* lines 137-138: the cell is opened and counted
mark_revealed(b, i) ==
    [b EXCEPT !.cells[i].is_revealed = TRUE, !.revealed_count = @ + 1]

\* the shuffle outcome handed to the recursive calls, which never place mines
chosen_none == {}

\* The recursion of reveal, as the machine that executes it.  A frame
\* <<col, row, k>> of the stack is an activation of reveal(col, row) that is
\* inside its loop "for nc, nr in self.neighbors(col, row)" (lines 147-148)
\* and is about to handle the k-th neighbour; b is the board.
Machine(b, stack) == [b |-> b, stack |-> stack]

\* One call reveal(col, row) that places the mines (lines 128-129) before it
\* tests the bounds (lines 125-126).
call_placesFirst(st, col, row, chosen) ==
    LET b  == st.b
        b1 == IF ~b.mines_placed THEN place_mines(b, col, row, chosen) ELSE b
        i  == index(b, col, row)
        b2 == mark_revealed(b1, i)
    IN IF ~is_inbounds(b, col, row) THEN Machine(b1, st.stack)
       ELSE IF is_blocked(b1, col, row) THEN Machine(b1, st.stack)
       ELSE IF b2.cells[i].is_mine
            THEN Machine(reveal_all_mines([b2 EXCEPT !.game_over = TRUE]),
                         st.stack)
       ELSE IF b2.cells[i].adjacent = 0
            THEN Machine(b2, <<(<<col, row, 1>>)>> \o st.stack)
       ELSE Machine(check_win(b2), st.stack)

\* One call reveal(col, row) that counts the cell (line 138) before it tests
\* whether the cell is revealed or flagged (lines 134-135).
call_countsFirst(st, col, row, chosen) ==
    LET b  == st.b
        b1 == IF ~b.mines_placed THEN place_mines(b, col, row, chosen) ELSE b
        i  == index(b, col, row)
        b2 == mark_revealed(b1, i)
    IN IF ~is_inbounds(b, col, row) THEN st
       ELSE IF is_blocked(b1, col, row)
            THEN Machine([b1 EXCEPT !.revealed_count = @ + 1], st.stack)
       ELSE IF b2.cells[i].is_mine
            THEN Machine(reveal_all_mines([b2 EXCEPT !.game_over = TRUE]),
                         st.stack)
       ELSE IF b2.cells[i].adjacent = 0
            THEN Machine(b2, <<(<<col, row, 1>>)>> \o st.stack)
       ELSE Machine(check_win(b2), st.stack)

\* One call reveal(col, row) without the loop of lines 146-148: a cell with
\* adjacent = 0 is opened like any other.
call_noFlood(st, col, row, chosen) ==
    LET b  == st.b
        b1 == IF ~b.mines_placed THEN place_mines(b, col, row, chosen) ELSE b
        i  == index(b, col, row)
        b2 == mark_revealed(b1, i)
    IN IF ~is_inbounds(b, col, row) THEN st
       ELSE IF is_blocked(b1, col, row) THEN Machine(b1, st.stack)
       ELSE IF b2.cells[i].is_mine
            THEN Machine(reveal_all_mines([b2 EXCEPT !.game_over = TRUE]),
                         st.stack)
       ELSE Machine(check_win(b2), st.stack)

\* One call reveal(col, row), from its entry to its return or to its first
\* recursive call.  chosen is the outcome of the shuffle, used only if this
\* call places the mines.
call(st, col, row, chosen) ==
    LET b  == st.b
        b1 == IF ~b.mines_placed THEN place_mines(b, col, row, chosen) ELSE b
        i  == index(b, col, row)
        b2 == mark_revealed(b1, i)
    IN IF ~is_inbounds(b, col, row) THEN st
       ELSE IF is_blocked(b1, col, row) THEN Machine(b1, st.stack)
       ELSE IF b2.cells[i].is_mine
            THEN Machine(reveal_all_mines([b2 EXCEPT !.game_over = TRUE]),
                         st.stack)
       ELSE IF b2.cells[i].adjacent = 0
            THEN Machine(b2, <<(<<col, row, 1>>)>> \o st.stack)
       ELSE Machine(check_win(b2), st.stack)

\* the loop of lines 147-148, left at the first neighbour that is_blocked
next_open_untilBlocked(b, ns, k) ==
    IF k <= Len(ns) /\ ~is_blocked(b, ns[k][1], ns[k][2]) THEN k ELSE 0

\* the first position j >= k of ns whose cell passes the test of line 134,
\* or 0 when there is none
next_open(b, ns, k) ==
    LET live == {j \in k .. Len(ns) : ~is_blocked(b, ns[j][1], ns[j][2])}
    IN IF live = {} THEN 0 ELSE CHOOSE m \in live : \A n \in live : m <= n

\* step, with the _check_win of line 150 left out when the loop ends
step_noCheck(st) ==
    LET top == Head(st.stack)
        ns  == neighbors(st.b, top[1], top[2])
        j   == next_open(st.b, ns, top[3])
    IN IF j = 0 THEN Machine(st.b, Tail(st.stack))
       ELSE call(Machine(st.b, <<(<<top[1], top[2], j + 1>>)>> \o Tail(st.stack)),
                 ns[j][1], ns[j][2], chosen_none)

\* The innermost activation, whose neighbours are ns, goes on with its loop
\* at position j: it makes the recursive call on ns[j], or, when j = 0, its
\* loop is at its end, it runs _check_win (line 150) and returns.
advance(st, ns, j) ==
    LET top == Head(st.stack)
    IN IF j = 0 THEN Machine(check_win(st.b), Tail(st.stack))
       ELSE call(Machine(st.b, <<(<<top[1], top[2], j + 1>>)>> \o Tail(st.stack)),
                 ns[j][1], ns[j][2], chosen_none)

\* One step of the innermost activation.  A recursive call on a neighbour that
\* is_blocked returns at line 135 without effect (neighbours are in bounds and
\* the mines are placed by then), so the loop goes straight to the next
\* neighbour whose call gets past that test.
step(st) ==
    LET top == Head(st.stack)
        ns  == neighbors(st.b, top[1], top[2])
    IN advance(st, ns, next_open(st.b, ns, top[3]))

RECURSIVE run(_)
run(st) == IF st.stack = << >> THEN st.b ELSE run(step(st))

reveal(b, col, row, chosen) == run(call(Machine(b, << >>), col, row, chosen))

\* lines 152-164, without the test of line 158
toggle_flag_anyCell(b, col, row) ==
    IF ~is_inbounds(b, col, row) THEN b
    ELSE LET i == index(b, col, row)
         IN check_win([b EXCEPT !.cells[i].is_flagged = ~@])

\* lines 152-164, with line 162 setting the flag instead of inverting it
toggle_flag_setOnly(b, col, row) ==
    IF ~is_inbounds(b, col, row) THEN b
    ELSE LET i == index(b, col, row)
         IN IF b.cells[i].is_revealed THEN b
            ELSE check_win([b EXCEPT !.cells[i].is_flagged = TRUE])

toggle_flag(b, col, row) ==
    IF ~is_inbounds(b, col, row) THEN b
    ELSE LET i == index(b, col, row)
         IN IF b.cells[i].is_revealed THEN b
            ELSE check_win([b EXCEPT !.cells[i].is_flagged = ~@])

flagged_count(b) ==
    Cardinality({i \in DOMAIN b.cells : b.cells[i].is_flagged})

\* ---- state machine -------------------------------------------------------
Install(b) ==
    /\ cols' = b.cols
    /\ rows' = b.rows
    /\ num_mines' = b.num_mines
    /\ cells' = b.cells
    /\ mines_placed' = b.mines_placed
    /\ revealed_count' = b.revealed_count
    /\ game_over' = b.game_over
    /\ win' = b.win

\* ---- Game: the fields of the clock ------------------------------------------
\* Game.__init__: the clock fields of a new Game; pause_start_ticks is not
\* among the attributes it creates
GameConstructed ==
    /\ ticks = 0
    /\ started = FALSE
    /\ start_ticks_ms = 0
    /\ end_ticks_ms = 0
    /\ paused = FALSE
    /\ paused_start_ticks = 0
    /\ pause_start_ticks = << >>

\* The rules treat columns and rows alike, so a board and its transpose play
\* the same games: boards are taken at least as wide as they are tall.
Init ==
    \E c \in 1 .. MaxCols, r \in 1 .. MaxRows, m \in 0 .. MaxMines :
        LET b == Board(c, r, m)
        IN /\ c * r <= MaxCells
           /\ r <= c
           /\ cols = b.cols
           /\ rows = b.rows
           /\ num_mines = b.num_mines
           /\ cells = b.cells
           /\ mines_placed = b.mines_placed
           /\ revealed_count = b.revealed_count
           /\ game_over = b.game_over
           /\ win = b.win
           /\ calls = 0
           /\ safe = << >>
           /\ GameConstructed

\* the coordinates a caller may pass: every cell, and one pair for each way of
\* being out of bounds (col < 0, col >= cols, row < 0, row >= rows)
Args ==
    {<<c, r>> : c \in 0 .. (cols - 1), r \in 0 .. (rows - 1)}
        \cup {<<-1, 0>>, <<cols, 0>>, <<0, -1>>, <<0, rows>>}

Shuffles(col, row) ==
    IF is_inbounds(self, col, row) /\ ~mines_placed
    THEN mine_positions(self, col, row)
    ELSE {chosen_none}

\* the call self.reveal(col, row)
RevealAt(col, row) ==
    /\ safe' = IF is_inbounds(self, col, row) /\ ~mines_placed
               THEN <<col, row>> ELSE safe
    /\ \E chosen \in Shuffles(col, row) :
           Install(reveal(self, col, row, chosen))

\* the call self.toggle_flag(col, row)
ToggleFlagAt(col, row) ==
    /\ Install(toggle_flag(self, col, row))
    /\ UNCHANGED safe

Reveal ==
    /\ calls < MaxCalls
    /\ calls' = calls + 1
    /\ \E a \in Args : RevealAt(a[1], a[2])
    /\ UNCHANGED <<ticks, gameVars>>

ToggleFlag ==
    /\ calls < MaxCalls
    /\ calls' = calls + 1
    /\ \E a \in Args :
           /\ flagged_count(toggle_flag(self, a[1], a[2])) <= MaxFlags
           /\ ToggleFlagAt(a[1], a[2])
    /\ UNCHANGED <<ticks, gameVars>>

Next == Reveal \/ ToggleFlag

Spec == Init /\ [][Next]_vars

\* ---- Game: the application loop (run.py) -----------------------------------
mouse_left   == 1
mouse_middle == 2
mouse_right  == 3

\* Game._elapsed_ms()
elapsed_ms ==
    IF ~started THEN 0
    ELSE IF end_ticks_ms # 0 THEN end_ticks_ms - start_ticks_ms
    ELSE IF paused THEN paused_start_ticks - start_ticks_ms
    ELSE ticks - start_ticks_ms

\* what InputController.pos_to_grid can return for a click below the header:
\* a cell of the board, or (-1, -1)
GridPositions ==
    {<<c, r>> : c \in 0 .. (cols - 1), r \in 0 .. (rows - 1)} \cup {<<-1, -1>>}

\* InputController.handle_mouse for a click that pos_to_grid maps to
\* (col, row); the highlight and hint fields are presentation only
handle_mouse(col, row, button) ==
    IF col = -1
    THEN UNCHANGED <<boardVars, safe, started, start_ticks_ms>>
    ELSE IF button = mouse_left
    THEN /\ started' = TRUE
         /\ start_ticks_ms' = IF started THEN start_ticks_ms ELSE ticks
         /\ safe' = IF mines_placed THEN safe ELSE <<col, row>>
         /\ \E chosen \in Shuffles(col, row) :
                Install(reveal(reveal(self, col, row, chosen),
                               col, row, chosen_none))
    ELSE IF button = mouse_right
    THEN /\ flagged_count(toggle_flag(self, col, row)) <= MaxFlags
         /\ Install(toggle_flag(self, col, row))
         /\ UNCHANGED <<safe, started, start_ticks_ms>>
    ELSE UNCHANGED <<boardVars, safe, started, start_ticks_ms>>

\* the end of Game.run_step: the clock stops once the board is won or lost
StopClock ==
    end_ticks_ms' = IF (game_over' \/ win') /\ started' /\ end_ticks_ms = 0
                    THEN ticks ELSE end_ticks_ms

\* Game.run_step with a KEYDOWN event in the queue
KeyDown ==
    /\ calls < MaxCalls
    /\ calls' = calls + 1
    /\ IF ~game_over /\ ~win /\ started /\ ~paused
       THEN /\ paused' = TRUE
            /\ pause_start_ticks' = <<ticks>>
       ELSE UNCHANGED <<paused, pause_start_ticks>>
    /\ UNCHANGED <<boardVars, safe, ticks, started, start_ticks_ms,
                   paused_start_ticks>>
    /\ StopClock

\* Game.run_step with a MOUSEBUTTONDOWN event in the queue
MouseButtonDown ==
    /\ calls < MaxCalls
    /\ calls' = calls + 1
    /\ \E button \in {mouse_left, mouse_middle, mouse_right} :
       \E pos \in GridPositions :
           IF paused
           THEN /\ IF button = mouse_left
                   THEN /\ start_ticks_ms' =
                               start_ticks_ms + (ticks - pause_start_ticks[1])
                        /\ paused' = FALSE
                   ELSE UNCHANGED <<start_ticks_ms, paused>>
                /\ UNCHANGED <<boardVars, safe, started>>
           ELSE /\ handle_mouse(pos[1], pos[2], button)
                /\ UNCHANGED paused
    /\ UNCHANGED <<ticks, paused_start_ticks, pause_start_ticks>>
    /\ StopClock

\* time passes between two events
Tick ==
    /\ ticks < MaxTicks
    /\ ticks' = ticks + 1
    /\ UNCHANGED <<boardVars, calls, safe, gameVars>>

\* Game.__init__ builds Board(config.cols, config.rows, config.num_mines);
\* the configured 16 x 16 board with 40 mines is scaled down to 4 x 3 with one
GameInit ==
    LET b == Board(4, 3, 1)
    IN /\ cols = b.cols
       /\ rows = b.rows
       /\ num_mines = b.num_mines
       /\ cells = b.cells
       /\ mines_placed = b.mines_placed
       /\ revealed_count = b.revealed_count
       /\ game_over = b.game_over
       /\ win = b.win
       /\ calls = 0
       /\ safe = << >>
       /\ GameConstructed

GameNext == KeyDown \/ MouseButtonDown \/ Tick

GameSpec == GameInit /\ [][GameNext]_vars

\* ---- vocabulary of the properties ------------------------------------------
Revealed     == {i \in DOMAIN cells : cells[i].is_revealed}
Mines        == {i \in DOMAIN cells : cells[i].is_mine}
Flagged      == {i \in DOMAIN cells : cells[i].is_flagged}

\* the documented precondition on the configuration (spec 4.1, 7)
ValidConfig  == num_mines <= cols * rows - 9

\* cells j whose column and row both differ by at most one from those of
\* cell i, i itself excluded: the neighbourhood, recomputed without neighbors
IsAround(i, j) ==
    /\ j # i
    /\ (j % cols) - (i % cols) \in {-1, 0, 1}
    /\ (j \div cols) - (i \div cols) \in {-1, 0, 1}

Around(i) == {j \in DOMAIN cells : IsAround(i, j)}

SameMineRevealFlag ==
    \A i \in DOMAIN cells :
        /\ cells'[i].is_mine = cells[i].is_mine
        /\ cells'[i].is_revealed = cells[i].is_revealed
        /\ cells'[i].is_flagged = cells[i].is_flagged

\* ---- C1 --------------------------------------------------------------------
\* C1: once game_over or win is true, every later reveal and toggle_flag call
\* leaves every cell's is_mine, is_revealed and is_flagged unchanged (stated
\* for the boards that meet the documented precondition).
C1_TerminalStateFrozen ==
    [][(ValidConfig /\ (game_over \/ win)) => SameMineRevealFlag]_vars

\* ---- C2 --------------------------------------------------------------------
\* C2: game_over and win are never both true (stated for the boards that meet
\* the documented precondition).
C2_OutcomesExclusive == ValidConfig => ~(game_over /\ win)

\* ---- C3 --------------------------------------------------------------------
\* C3: between operations, revealed_count equals the number of cells whose
\* is_revealed is true (stated for the boards that meet the documented
\* precondition, and for the games that were not won before).
C3_CountEqualsRevealed ==
    (ValidConfig /\ ~win) => revealed_count = Cardinality(Revealed)

\* C3 (amended): on a board with num_mines <= cols*rows - 9, while game_over is
\* false revealed_count equals the number of revealed cells; in every state it
\* is at most that number (the mines exposed at game over are not counted).
C3_CountWhileNoMineRevealed ==
    /\ (ValidConfig /\ ~game_over) => revealed_count = Cardinality(Revealed)
    /\ revealed_count <= Cardinality(Revealed)

C3_Witness ==
    /\ ValidConfig /\ ~game_over /\ num_mines = 2 /\ calls >= 2
    /\ Cardinality(Revealed) >= 3

\* ---- C4 --------------------------------------------------------------------
\* C4: reveal on an in-bounds cell that is flagged or already revealed changes
\* nothing of the board, also when the mines are not placed yet (stated for
\* the boards that meet the documented precondition).
C4_BlockedRevealIsNoOp ==
    [][\A a \in Args :
          (/\ ValidConfig
           /\ is_inbounds(self, a[1], a[2])
           /\ is_blocked(self, a[1], a[2])
           /\ RevealAt(a[1], a[2]))
          => UNCHANGED boardVars]_vars

\* ---- C5 --------------------------------------------------------------------
\* C5: the first cell of a new board whose is_revealed becomes true (the
\* target of the reveal call that opens the first cells) is not a mine, and
\* none of its in-bounds neighbours is a mine (stated for the boards that meet
\* the documented precondition).  Written in the contrapositive: no reveal
\* call opens the first cells of the board while its target, or a cell around
\* its target, is a mine.
C5_FirstRevealedSafe ==
    [][\A a \in Args :
          (/\ ValidConfig
           /\ Revealed = {} /\ Revealed' # {}
           /\ is_inbounds(self, a[1], a[2])
           /\ \/ cells'[index(self, a[1], a[2])].is_mine
              \/ \E j \in Around(index(self, a[1], a[2])) : cells'[j].is_mine)
          => ~RevealAt(a[1], a[2])]_vars

\* ---- C6 --------------------------------------------------------------------
\* C6: on a board with num_mines <= cols*rows - 9, from placement on exactly
\* num_mines cells are mines, whatever the safe origin.
C6_ExactMineCount ==
    (ValidConfig /\ mines_placed) => Cardinality(Mines) = num_mines

\* placement from an interior origin (the pool is what is left of 4x3 after
\* the 9 forbidden cells), seen one call later
C6_Witness ==
    /\ ValidConfig /\ mines_placed /\ num_mines = 2 /\ Cardinality(Mines) = 2
    /\ cols = 4 /\ rows = 3 /\ safe = <<1, 1>> /\ calls >= 2

\* ---- C7 --------------------------------------------------------------------
\* C7: after placement, the cell the placing reveal call was aimed at and all
\* its in-bounds neighbours are free of mines.
C7_SafeZone ==
    mines_placed =>
        /\ safe # << >>
        /\ ~cells[index(self, safe[1], safe[2])].is_mine
        /\ \A j \in Around(index(self, safe[1], safe[2])) : ~cells[j].is_mine

C7_Witness ==
    /\ mines_placed /\ Cardinality(Mines) = 2
    /\ cols = 4 /\ rows = 3 /\ safe = <<3, 1>>

\* ---- C8 --------------------------------------------------------------------
\* C8: placement runs at most once: once it has run, mines_placed is and stays
\* true, its safe origin is never replaced, and no cell's is_mine or adjacent
\* changes.
C8_OneShotPlacement ==
    [][safe # << >> =>
          /\ mines_placed /\ mines_placed'
          /\ safe' = safe
          /\ \A i \in DOMAIN cells :
                /\ cells'[i].is_mine = cells[i].is_mine
                /\ cells'[i].adjacent = cells[i].adjacent]_vars

\* a flag set and a mine hit on a board whose mines were placed by an earlier
\* reveal
C8_Witness ==
    /\ mines_placed /\ Cardinality(Mines) = 2 /\ game_over /\ Flagged # {}
    /\ safe # << >>

\* ---- C9 --------------------------------------------------------------------
\* C9: after placement, adjacent of every cell that is not a mine is the
\* number of mines among the cells around it.
C9_AdjacencyCorrect ==
    mines_placed =>
        \A i \in DOMAIN cells :
            ~cells[i].is_mine =>
                cells[i].adjacent = Cardinality({j \in Around(i) : cells[j].is_mine})

C9_Witness ==
    /\ mines_placed /\ ValidConfig /\ Cardinality(Mines) = 2
    /\ \E i \in DOMAIN cells : ~cells[i].is_mine /\ cells[i].adjacent = 2
    /\ \E i \in DOMAIN cells : ~cells[i].is_mine /\ cells[i].adjacent = 0

\* ---- C10 -------------------------------------------------------------------
\* C10: revealed_count never decreases and no cell goes from revealed to
\* not revealed.
C10_MonotonicReveal ==
    [][/\ revealed_count' >= revealed_count
       /\ \A i \in DOMAIN cells :
              cells[i].is_revealed => cells'[i].is_revealed]_vars

\* a game lost after some cells were opened
C10_Witness ==
    /\ game_over /\ revealed_count >= 2 /\ Cardinality(Mines) = 2
    /\ Mines \subseteq Revealed

\* ---- C11 -------------------------------------------------------------------
\* C11: on a board with num_mines <= cols*rows - 9, in every state where
\* revealed_count = cols*rows - num_mines and no mine is revealed, win is true
\* and every cell that is not a mine is revealed; and win is true only in
\* states where every cell that is not a mine is revealed.
C11_WinCondition ==
    ValidConfig =>
        /\ (revealed_count = cols * rows - num_mines /\ Mines \cap Revealed = {})
               => (win /\ (DOMAIN cells \ Mines) \subseteq Revealed)
        /\ win => (DOMAIN cells \ Mines) \subseteq Revealed

\* a game with two mines won by opening the last safe cell after the flood
C11_Witness ==
    /\ ValidConfig /\ win /\ ~game_over /\ num_mines = 2
    /\ Cardinality(Mines) = 2 /\ Mines \cap Revealed = {}
    /\ revealed_count = cols * rows - num_mines /\ calls >= 2

\* ---- C12 -------------------------------------------------------------------
\* C12: a reveal call aimed at a mine cell that is neither revealed nor
\* flagged ends with game_over true, every mine revealed and win false; and
\* from a lost game that is not won, no step makes win true (stated for the
\* boards that meet the documented precondition).
C12_LossCondition ==
    [][/\ \A a \in Args :
             (/\ ValidConfig
              /\ is_inbounds(self, a[1], a[2])
              /\ cells[index(self, a[1], a[2])].is_mine
              /\ ~is_blocked(self, a[1], a[2])
              /\ RevealAt(a[1], a[2]))
             => (/\ game_over'
                 /\ \A i \in DOMAIN cells :
                        cells'[i].is_mine => cells'[i].is_revealed
                 /\ ~win')
       /\ (ValidConfig /\ game_over /\ ~win) => ~win']_vars

\* ---- C13 -------------------------------------------------------------------
\* The cells a flood from the cells of S opens: S, and, as long as it grows,
\* the cells of open around a cell of the set whose adjacent (adj) is 0.
RECURSIVE FloodRegion(_, _, _)
FloodRegion(S, adj, open) ==
    LET Z == {c \in S : adj[c] = 0}
        T == S \cup {j \in open \ S : \E c \in Z : IsAround(c, j)}
    IN IF T = S THEN S ELSE FloodRegion(T, adj, open)

\* C13: a reveal call aimed at a cell that is not a mine, not revealed and not
\* flagged newly reveals exactly the unrevealed, unflagged cells reached from
\* it by steps between neighbours that leave only cells with adjacent = 0
\* (the target alone when its adjacent > 0); the region ends at cells with
\* adjacent > 0, that is, every cell around a newly revealed cell with
\* adjacent = 0 is revealed; and no cell goes from revealed to hidden (stated
\* for the boards that meet the documented precondition, of every call the
\* board can receive in a state).
C13_FloodThroughEveryZero ==
    []((ValidConfig /\ calls < MaxCalls) =>
        \A a \in Args : \A chosen \in Shuffles(a[1], a[2]) :
          LET after == reveal(self, a[1], a[2], chosen)
              t     == index(self, a[1], a[2])
          IN (/\ is_inbounds(self, a[1], a[2])
              /\ ~is_blocked(self, a[1], a[2])
              /\ ~after.cells[t].is_mine)
             => LET adj      == [i \in DOMAIN cells |-> after.cells[i].adjacent]
                    open     == DOMAIN cells \ (Revealed \cup Flagged)
                    reached  == FloodRegion({t}, adj, DOMAIN cells)
                    revealed == {i \in DOMAIN cells : after.cells[i].is_revealed}
                IN /\ revealed \ Revealed = reached \cap open
                   /\ Revealed \subseteq revealed
                   /\ adj[t] > 0 => revealed \ Revealed = {t}
                   /\ \A c \in revealed \ Revealed :
                          adj[c] = 0 => Around(c) \subseteq revealed)

\* C13 (amended): the flood passes only through cells that it opens: a reveal
\* call aimed at a cell that is not a mine, not revealed and not flagged newly
\* reveals exactly the unrevealed, unflagged cells reached from it by steps
\* between neighbours that leave only unrevealed, unflagged cells with
\* adjacent = 0 (the target alone when its adjacent > 0); the region ends at
\* cells with adjacent > 0 or at flags, that is, every cell around a newly
\* revealed cell with adjacent = 0 is then revealed or flagged; and no cell
\* goes from revealed to hidden.
C13_FloodFill ==
    []((ValidConfig /\ calls < MaxCalls) =>
        \A a \in Args : \A chosen \in Shuffles(a[1], a[2]) :
          LET after == reveal(self, a[1], a[2], chosen)
              t     == index(self, a[1], a[2])
          IN (/\ is_inbounds(self, a[1], a[2])
              /\ ~is_blocked(self, a[1], a[2])
              /\ ~after.cells[t].is_mine)
             => LET adj      == [i \in DOMAIN cells |-> after.cells[i].adjacent]
                    open     == DOMAIN cells \ (Revealed \cup Flagged)
                    region   == FloodRegion({t}, adj, open)
                    revealed == {i \in DOMAIN cells : after.cells[i].is_revealed}
                    flagged  == {i \in DOMAIN cells : after.cells[i].is_flagged}
                IN /\ revealed \ Revealed = region
                   /\ Revealed \subseteq revealed
                   /\ adj[t] > 0 => region = {t}
                   /\ \A c \in region :
                          adj[c] = 0 => Around(c) \subseteq (revealed \cup flagged))

\* a flood that went around a flag and stopped at the numbers next to the
\* mines, on a board that is not won by it
C13_Witness ==
    /\ ValidConfig /\ mines_placed /\ ~win /\ ~game_over /\ num_mines = 2
    /\ Flagged # {} /\ Revealed \cap Flagged = {}
    /\ \E c \in Revealed : cells[c].adjacent = 0 /\ Around(c) \cap Flagged # {}
    /\ \E c \in Revealed : cells[c].adjacent > 0

\* ---- C14 -------------------------------------------------------------------
\* C14: on a board with num_mines <= cols*rows - 9, toggle_flag on an
\* in-bounds cell that is not revealed inverts is_flagged of that cell and
\* changes nothing else (revealed_count, game_over, win, mines_placed, every
\* is_mine, adjacent and is_revealed, every other is_flagged); on a revealed
\* cell it changes nothing (of every call the board can receive in a state).
C14_ToggleFlagFrame ==
    [](ValidConfig =>
        \A a \in Args :
          is_inbounds(self, a[1], a[2])
          => LET after == toggle_flag(self, a[1], a[2])
                 i     == index(self, a[1], a[2])
             IN IF cells[i].is_revealed
                THEN after = self
                ELSE after = [self EXCEPT
                                 !.cells[i].is_flagged = ~cells[i].is_flagged])

\* a flagged hidden mine on a won board, where the _check_win of toggle_flag
\* finds its condition true
C14_Witness ==
    /\ ValidConfig /\ win /\ ~game_over /\ num_mines >= 1
    /\ Flagged # {} /\ Flagged \subseteq Mines /\ Revealed \cap Flagged = {}
    /\ revealed_count = cols * rows - num_mines

\* ---- C15 -------------------------------------------------------------------
\* C15: reveal and toggle_flag with col < 0, col >= cols, row < 0 or
\* row >= rows leave the whole board as it was; in particular they do not
\* place the mines (of every such call the board can receive in a state).
C15_OutOfBoundsNoOp ==
    [](\A a \in Args :
          ~is_inbounds(self, a[1], a[2])
          => /\ \A chosen \in Shuffles(a[1], a[2]) :
                    reveal(self, a[1], a[2], chosen) = self
             /\ toggle_flag(self, a[1], a[2]) = self)

\* a board that received three calls and still has no mines, no flag and no
\* revealed cell
C15_Witness ==
    /\ calls = MaxCalls /\ ~mines_placed /\ safe = << >>
    /\ Revealed = {} /\ Flagged = {} /\ num_mines >= 1 /\ ValidConfig

\* ---- C16 -------------------------------------------------------------------
\* C16: in every state and for every pair of coordinates, a second
\* reveal(col, row) right after the first changes nothing: two calls in
\* succession leave the board as one call does (a left click makes both).
C16_RevealIdempotent ==
    [](calls < MaxCalls =>
        \A a \in Args : \A chosen \in Shuffles(a[1], a[2]) :
          LET once == reveal(self, a[1], a[2], chosen)
          IN reveal(once, a[1], a[2], chosen_none) = once)

\* a board whose mines were placed by a reveal aimed at a flagged cell and
\* that a later reveal of a mine lost
C16_Witness ==
    /\ mines_placed /\ ValidConfig /\ num_mines = 2 /\ Flagged # {}
    /\ safe # << >> /\ cells[index(self, safe[1], safe[2])].is_flagged
    /\ game_over /\ Mines \subseteq Revealed

\* ---- C17 -------------------------------------------------------------------
\* C17: two toggle_flag calls in succession on an in-bounds cell that is not
\* revealed invert its is_flagged and then restore it, restore flagged_count
\* and leave the rest of the board as it was (stated for the boards that meet
\* the documented precondition).
C17_FlagRoundTrip ==
    [](ValidConfig =>
        \A a \in Args :
          (/\ is_inbounds(self, a[1], a[2])
           /\ ~cells[index(self, a[1], a[2])].is_revealed)
          => LET i     == index(self, a[1], a[2])
                 once  == toggle_flag(self, a[1], a[2])
                 twice == toggle_flag(once, a[1], a[2])
             IN /\ once.cells[i].is_flagged = ~cells[i].is_flagged
                /\ twice.cells[i].is_flagged = cells[i].is_flagged
                /\ flagged_count(twice) = flagged_count(self)
                /\ twice = self)

\* a game in progress with a flag and with a hidden cell that has none
C17_Witness ==
    /\ ValidConfig /\ mines_placed /\ ~win /\ ~game_over /\ num_mines = 2
    /\ Flagged # {} /\ Revealed # {}
    /\ DOMAIN cells \ (Revealed \cup Flagged) # {}

\* ---- C18, C19 --------------------------------------------------------------
\* a board as constructed: no mines placed, no flag (and so no revealed cell)
Fresh == ~mines_placed /\ Flagged = {} /\ Revealed = {} /\ revealed_count = 0

\* C18: on a board as constructed with num_mines = 0, one reveal of any
\* in-bounds cell reveals every cell, sets revealed_count to cols*rows and
\* sets win, and does not end the game as lost.
C18_ZeroMineBoard ==
    [][\A a \in Args :
          (/\ Fresh /\ num_mines = 0
           /\ is_inbounds(self, a[1], a[2])
           /\ RevealAt(a[1], a[2]))
          => (/\ \A i \in DOMAIN cells : cells'[i].is_revealed
              /\ revealed_count' = cols * rows
              /\ win' /\ ~game_over')]_vars

\* the 4x3 board without mines, won by its first reveal
C18_Witness ==
    /\ num_mines = 0 /\ cols = 4 /\ rows = 3 /\ calls = 1 /\ win
    /\ revealed_count = 12 /\ Revealed = DOMAIN cells /\ Flagged = {}

\* C19: on a board as constructed with num_mines <= cols*rows - 9, the first
\* in-bounds reveal(col, row) leaves game_over false, reveals the target
\* (revealed_count >= 1) and leaves the target and all its in-bounds
\* neighbours free of mines, whatever the shuffle.
C19_SafeFirstMove ==
    [][\A a \in Args :
          (/\ Fresh /\ ValidConfig
           /\ is_inbounds(self, a[1], a[2])
           /\ RevealAt(a[1], a[2]))
          => LET t == index(self, a[1], a[2])
             IN /\ ~game_over'
                /\ cells'[t].is_revealed /\ revealed_count' >= 1
                /\ ~cells'[t].is_mine
                /\ \A j \in Around(t) : ~cells'[j].is_mine]_vars

\* a first reveal on the 4x3 board with two mines, from a corner, that did
\* not win
C19_Witness ==
    /\ ValidConfig /\ num_mines = 2 /\ Cardinality(Mines) = 2 /\ calls = 1
    /\ safe = <<0, 0>> /\ cells[0].is_revealed /\ ~game_over /\ ~win
    /\ Flagged = {}

\* ---- C20 -------------------------------------------------------------------
\* The recursion of one reveal call, followed for at most fuel steps of the
\* machine: the machine where it stopped, and the cells marked on the way (the
\* activations that got past line 135), in the order of their marking.
RECURSIVE marked_within(_, _, _)
marked_within(st, fuel, marked) ==
    IF st.stack = << >> \/ fuel = 0 THEN [st |-> st, marked |-> marked]
    ELSE LET top == Head(st.stack)
             ns  == neighbors(st.b, top[1], top[2])
             j   == next_open(st.b, ns, top[3])
         IN marked_within(advance(st, ns, j), fuel - 1,
                IF j = 0 THEN marked
                ELSE Append(marked, index(st.b, ns[j][1], ns[j][2])))

\* C20: every reveal call returns: its recursion ends within 2*cols*rows
\* steps (each a recursive call that gets past line 135, or the end of an
\* activation); no cell is marked revealed twice during a call, the
\* activations that mark a cell are those revealed_count counts, and they
\* are at most cols*rows.
C20_FloodTerminates ==
    [](calls < MaxCalls =>
        \A a \in Args : \A chosen \in Shuffles(a[1], a[2]) :
          LET first == call(Machine(self, << >>), a[1], a[2], chosen)
              t     == index(self, a[1], a[2])
              entry == IF is_inbounds(self, a[1], a[2])
                          /\ ~is_blocked(self, a[1], a[2])
                       THEN <<t>> ELSE << >>
              end   == marked_within(first, 2 * cols * rows, entry)
          IN /\ end.st.stack = << >>
             /\ Cardinality(Range(end.marked)) = Len(end.marked)
             /\ Len(end.marked) = end.st.b.revealed_count - revealed_count
             /\ Len(end.marked) <= cols * rows)

\* a single reveal whose flood marked six cells or more of a board with two
\* mines and stopped at the numbers
C20_Witness ==
    /\ ValidConfig /\ num_mines = 2 /\ Cardinality(Mines) = 2 /\ calls = 1
    /\ revealed_count >= 6 /\ ~win /\ ~game_over
    /\ \E c \in Revealed : cells[c].adjacent > 0

\* ---- C21 -------------------------------------------------------------------
\* C21: on a board with num_mines <= cols*rows - 9, no cell that is not a
\* mine is both flagged and revealed, and no step (a reveal aimed at it, the
\* flood of a reveal aimed elsewhere, the sweep of _check_win) reveals a
\* flagged cell that is not a mine.
C21_FlagsBlockReveal ==
    [][ValidConfig =>
          \A i \in DOMAIN cells :
              ~cells'[i].is_mine =>
                  /\ ~(cells'[i].is_flagged /\ cells'[i].is_revealed)
                  /\ (cells[i].is_flagged /\ ~cells[i].is_revealed)
                         => ~cells'[i].is_revealed]_vars

\* a flagged safe cell that the flood went around and that is still hidden
\* after the game was lost
C21_Witness ==
    /\ ValidConfig /\ mines_placed /\ game_over /\ Mines \subseteq Revealed
    /\ \E i \in Flagged :
           /\ ~cells[i].is_mine /\ ~cells[i].is_revealed
           /\ \E j \in Around(i) : cells[j].is_revealed /\ cells[j].adjacent = 0

\* ---- C22 -------------------------------------------------------------------
\* in the cells cs, every cell around a revealed cell with adjacent = 0 is
\* revealed or flagged
FloodClosed(cs) ==
    \A c \in DOMAIN cs :
        (cs[c].is_revealed /\ cs[c].adjacent = 0)
        => \A j \in DOMAIN cs :
               IsAround(c, j) => (cs[j].is_revealed \/ cs[j].is_flagged)

\* C22: in every state with game_over false, whatever reveal and toggle_flag
\* calls led to it, every in-bounds neighbour of a revealed cell with
\* adjacent = 0 is revealed or flagged (stated for the boards that meet the
\* documented precondition).
C22_FloodClosure == (ValidConfig /\ ~game_over) => FloodClosed(cells)

\* C22 (amended): the closure holds at the start and every call that removes
\* no flag keeps it while game_over is false.  Read from the end of a step:
\* when, after a reveal or a toggle_flag, some in-bounds neighbour of a
\* revealed cell with adjacent = 0 is neither revealed nor flagged, then the
\* game is lost, or the call removed a flag, or the same was true before it.
C22_FloodClosureKept ==
    [][~FloodClosed(cells')
          => \/ game_over'
             \/ \E i \in DOMAIN cells : cells[i].is_flagged /\ ~cells'[i].is_flagged
             \/ ~FloodClosed(cells)]_vars

\* a game in progress on the 4x3 board with one mine, where a flood ended at
\* a flag and at the numbers around the mine
C22_Witness ==
    /\ cols = 4 /\ rows = 3 /\ num_mines = 1 /\ Cardinality(Mines) = 1
    /\ ~game_over /\ ~win /\ FloodClosed(cells)
    /\ \E i \in Flagged : \E c \in Around(i) :
           cells[c].is_revealed /\ cells[c].adjacent = 0
    /\ \E c \in Revealed : cells[c].adjacent > 0
\* ---- C23 --------------------------------------------------------------------
\* C23: while the game is paused, the elapsed time returned by _elapsed_ms is
\* the tick at which the pause began minus start_ticks_ms, and it does not
\* change until the resume.
C23_PauseFreezesClock ==
    [][paused' =>
          /\ elapsed_ms' = pause_start_ticks'[1] - start_ticks_ms'
          /\ paused => elapsed_ms' = elapsed_ms]_vars

====
